---- MODULE Spec2Model ----
(***************************************************************************)
(* Style property descriptors of textual/css/_style_properties.py.         *)
(*                                                                         *)
(* A Styles object is a rule store (rule name -> value) plus a refresh     *)
(* collaborator.  Every descriptor __set__ is translated to an operator    *)
(* that threads an "outcome" record through the statements of the method:  *)
(*   rules   - the rule store after the statements executed so far         *)
(*   err     - "none", or the exception that ended the call                *)
(*   refresh - number of obj.refresh() calls made by the call              *)
(*   layout  - number of obj.refresh(layout=True) calls made by the call   *)
(* Python values are tagged records so that a str, a Color, a tuple and a  *)
(* list with the same contents stay different values.                      *)
(***************************************************************************)
EXTENDS Integers, Sequences, FiniteSets, TLC

VARIABLES rules, last, units, percent_unit, nwrites

vars == <<rules, last, units, percent_unit, nwrites>>

----------------------------------------------------------------------------
(* Bounds of the model *)

\* longest list / tuple handed to the border property
MaxSeqLen == 4

\* most words in a style-flag string
MaxWords == 2

\* most writes in one behaviour of the specification of all property kinds
MaxWrites == 2

----------------------------------------------------------------------------
(* Python values *)

PyNone == [t |-> "None"]
PyStr(s) == [t |-> "str", s |-> s]
PyColor(c) == [t |-> "Color", c |-> c]
PyTuple(items) == [t |-> "tuple", items |-> items]
PyList(items) == [t |-> "list", items |-> items]

\* marks a rule name that has no entry in the rule store
Absent == [t |-> "absent"]

\* the color literals Color.parse accepts
ColorNames == {"red", "blue"}

\* Color.parse(color): a Color for a valid literal, a parse error otherwise
ColorParseOk(s) == s \in ColorNames

ColorParse(s) == PyColor(s)

\* Color.default()
ColorDefault == PyColor("default")

----------------------------------------------------------------------------
(* The rule store and the refresh collaborator of a Styles object *)

BorderRules == {"border_top", "border_right", "border_bottom", "border_left"}

TextRules == {"text_color", "text_background", "text_style"}

RuleNames ==
    BorderRules \cup TextRules
        \cup {"width", "padding", "docks", "dock", "layout", "offset", "visibility",
              "layer", "layers", "transitions", "opacity"}

Start(r) == [rules |-> r, err |-> "none", refresh |-> 0, layout |-> 0]

get_rule(r, name, default) == IF r[name] = Absent THEN default ELSE r[name]

has_rule(r, name) == r[name] # Absent

set_rule(o, name, value) == [o EXCEPT !.rules[name] = value]

clear_rule(o, name) == [o EXCEPT !.rules[name] = Absent]

refresh(o) == [o EXCEPT !.refresh = @ + 1]

refresh_layout(o) == [o EXCEPT !.layout = @ + 1]

Raise(o, e) == [o EXCEPT !.err = e]

\* truthiness of a Python value as used by "x or default"
Truthy(v) ==
    CASE v.t = "None" -> FALSE
      [] v.t = "str" -> v.s # ""
      [] v.t \in {"tuple", "list"} -> Len(v.items) > 0
      [] OTHER -> TRUE

----------------------------------------------------------------------------
(* BoxProperty: one edge of a border *)

BoxDefault == PyTuple(<<PyStr(""), ColorDefault>>)

\* "_type, color = border" succeeds on a tuple or list of exactly two items
CanUnpack2(v) == v.t \in {"tuple", "list"} /\ Len(v.items) = 2

BoxProperty_get(r, name) ==
    LET stored == get_rule(r, name, PyNone)
        value == IF Truthy(stored) THEN stored ELSE BoxDefault
    IN PyTuple(<<value.items[1], value.items[2]>>)

BoxProperty_set(o, name, border) ==
    IF o.err # "none" THEN o
    ELSE IF border = PyNone THEN refresh(clear_rule(o, name))
    ELSE IF ~CanUnpack2(border) THEN Raise(o, "UnpackValueError")
    ELSE LET type == border.items[1]
             color == border.items[2]
         IN IF color.t = "str"
            THEN IF ColorParseOk(color.s)
                 THEN refresh(set_rule(o, name, PyTuple(<<type, ColorParse(color.s)>>)))
                 ELSE Raise(o, "ColorParseError")
            ELSE IF color.t = "Color"
            THEN refresh(set_rule(o, name, PyTuple(<<type, color>>)))
            ELSE refresh(set_rule(o, name, border))

----------------------------------------------------------------------------
(* BorderProperty: the four edges *)

Edges(top, right, bottom, left) ==
    [top |-> top, right |-> right, bottom |-> bottom, left |-> left]

BorderProperty_get(r, name) ==
    Edges(BoxProperty_get(r, name \o "_top"),
          BoxProperty_get(r, name \o "_right"),
          BoxProperty_get(r, name \o "_bottom"),
          BoxProperty_get(r, name \o "_left"))

\* setattr(obj, top, t); setattr(obj, right, r); setattr(obj, bottom, b); setattr(obj, left, l)
SetEdges(o, name, t, r, b, l) ==
    BoxProperty_set(
        BoxProperty_set(
            BoxProperty_set(
                BoxProperty_set(o, name \o "_top", t),
                name \o "_right", r),
            name \o "_bottom", b),
        name \o "_left", l)

ClearEdges(o, name) ==
    clear_rule(clear_rule(clear_rule(clear_rule(o, name \o "_top"),
        name \o "_right"), name \o "_bottom"), name \o "_left")

\* mutant: every color is parsed before the first edge is set
BorderProperty_set_Atomic(o0, name, border) ==
    LET o == refresh(o0)
        malformed(e) == CanUnpack2(e) /\ e.items[2].t = "str" /\ ~ColorParseOk(e.items[2].s)
    IN IF border = PyNone THEN ClearEdges(o, name)
       ELSE IF border.t = "tuple" THEN SetEdges(o, name, border, border, border, border)
       ELSE LET count == Len(border.items)
                b == border.items
            IN IF count \in {1, 2, 4} /\ \E i \in 1..count : malformed(b[i])
               THEN Raise(o, "ColorParseError")
               ELSE IF count = 1 THEN SetEdges(o, name, b[1], b[1], b[1], b[1])
               ELSE IF count = 2 THEN SetEdges(o, name, b[1], b[1], b[2], b[2])
               ELSE IF count = 4 THEN SetEdges(o, name, b[1], b[2], b[3], b[4])
               ELSE Raise(o, "InvalidArity")

BorderProperty_set(o0, name, border) ==
    LET o == refresh(o0)
    IN IF border = PyNone THEN ClearEdges(o, name)
       ELSE IF border.t = "tuple" THEN SetEdges(o, name, border, border, border, border)
       ELSE LET count == Len(border.items)
                b == border.items
            IN IF count = 1 THEN SetEdges(o, name, b[1], b[1], b[1], b[1])
               ELSE IF count = 2 THEN SetEdges(o, name, b[1], b[1], b[2], b[2])
               ELSE IF count = 4 THEN SetEdges(o, name, b[1], b[2], b[3], b[4])
               ELSE Raise(o, "InvalidArity")

----------------------------------------------------------------------------
(* rich.style.Style, as far as the text properties use it.  A str holding style
   words is kept as the sequence of its words: PyWords(ws) is " ".join(ws), so
   that str.split(" ") gives ws back. *)

PyWords(ws) == [t |-> "str", words |-> ws]

Style(color, bgcolor, on, off) ==
    [t |-> "Style", color |-> color, bgcolor |-> bgcolor, on |-> on, off |-> off]

\* Style.null()
StyleNull == Style(PyNone, PyNone, {}, {})

\* bool(style) is "not style._null"
IsNullStyle(s) == s.color = PyNone /\ s.bgcolor = PyNone /\ s.on = {} /\ s.off = {}

\* Style.from_color(color, bgcolor)
StyleFromColor(color, bgcolor) == Style(color, bgcolor, {}, {})

\* Style.__add__: a null operand is dropped, else the right operand's settings win
StyleAdd(a, b) ==
    IF IsNullStyle(b) THEN a
    ELSE IF IsNullStyle(a) THEN b
    ELSE Style(IF b.color # PyNone THEN b.color ELSE a.color,
               IF b.bgcolor # PyNone THEN b.bgcolor ELSE a.bgcolor,
               (a.on \ b.off) \cup b.on,
               (a.off \ b.on) \cup b.off)

\* the order in which Style.__str__ lists the attributes
AttrOrder == <<"bold", "dim", "italic", "underline", "strike", "overline">>

AttrNames == {AttrOrder[i] : i \in DOMAIN AttrOrder}

\* rich's STYLE_ATTRIBUTES: the words Style.parse reads as an attribute
AttrWords == AttrNames \cup {"b", "d", "i", "u", "s", "o"}

AttrOf(w) ==
    CASE w = "b" -> "bold"
      [] w = "d" -> "dim"
      [] w = "i" -> "italic"
      [] w = "u" -> "underline"
      [] w = "s" -> "strike"
      [] w = "o" -> "overline"
      [] OTHER -> w

RECURSIVE StrAttrs(_, _)
StrAttrs(s, i) ==
    IF i > Len(AttrOrder) THEN <<>>
    ELSE LET a == AttrOrder[i]
         IN (IF a \in s.on THEN <<a>> ELSE IF a \in s.off THEN <<"not", a>> ELSE <<>>)
                \o StrAttrs(s, i + 1)

\* str(style.without_color): the attribute words, or "none" when there are none
StrWithoutColor(s) ==
    LET ws == StrAttrs(s, 1) IN PyWords(IF ws = <<>> THEN <<"none">> ELSE ws)

\* Style.parse(definition), word by word; [ok |-> FALSE] is a StyleSyntaxError
RECURSIVE ParseWords(_, _, _)
ParseWords(ws, i, acc) ==
    IF i > Len(ws) THEN [ok |-> TRUE, style |-> acc]
    ELSE LET w == ws[i]
         IN IF w = "on"
            THEN IF i < Len(ws) /\ ColorParseOk(ws[i + 1])
                 THEN ParseWords(ws, i + 2, [acc EXCEPT !.bgcolor = ColorParse(ws[i + 1])])
                 ELSE [ok |-> FALSE]
            ELSE IF w = "not"
            THEN IF i < Len(ws) /\ ws[i + 1] \in AttrWords
                 THEN LET a == AttrOf(ws[i + 1])
                      IN ParseWords(ws, i + 2,
                             [acc EXCEPT !.on = @ \ {a}, !.off = @ \cup {a}])
                 ELSE [ok |-> FALSE]
            ELSE IF w \in AttrWords
            THEN LET a == AttrOf(w)
                 IN ParseWords(ws, i + 1, [acc EXCEPT !.on = @ \cup {a}, !.off = @ \ {a}])
            ELSE IF ColorParseOk(w)
            THEN ParseWords(ws, i + 1, [acc EXCEPT !.color = ColorParse(w)])
            ELSE [ok |-> FALSE]

StyleParse(str) ==
    LET ws == SelectSeq(str.words, LAMBDA w : w # "")
    IN IF ws = <<>> \/ ws = <<"none">> THEN [ok |-> TRUE, style |-> StyleNull]
       ELSE ParseWords(ws, 1, StyleNull)

----------------------------------------------------------------------------
(* ColorProperty *)

ColorProperty_get(r, name) ==
    LET stored == get_rule(r, name, PyNone)
    IN IF Truthy(stored) THEN stored ELSE ColorDefault

ColorProperty_set(o0, name, color) ==
    IF o0.err # "none" THEN o0
    ELSE LET o == refresh(o0)
         IN IF color = PyNone THEN clear_rule(o, name)
            ELSE IF color.t = "Color" THEN set_rule(o, name, color)
            ELSE IF color.t = "str"
            THEN IF ColorParseOk(color.s) THEN set_rule(o, name, ColorParse(color.s))
                 ELSE Raise(o, "ColorParseError")
            ELSE o

----------------------------------------------------------------------------
(* StyleFlagsProperty *)

VALID_PROPERTIES ==
    {"none", "not", "bold", "italic", "underline", "overline", "strike",
     "b", "i", "u", "o"}

StyleFlagsProperty_get(r, name) == get_rule(r, name, StyleNull)

\* mutant: the words are not checked against _VALID_PROPERTIES
StyleFlagsProperty_set_NoVocabulary(o0, name, style_flags) ==
    IF o0.err # "none" THEN o0
    ELSE LET o == refresh(o0)
         IN IF style_flags = PyNone THEN clear_rule(o, name)
            ELSE LET parsed == StyleParse(style_flags)
                 IN IF parsed.ok THEN set_rule(o, name, parsed.style)
                    ELSE Raise(o, "StyleSyntaxError")

StyleFlagsProperty_set(o0, name, style_flags) ==
    IF o0.err # "none" THEN o0
    ELSE LET o == refresh(o0)
         IN IF style_flags = PyNone THEN clear_rule(o, name)
            ELSE IF \E i \in DOMAIN style_flags.words :
                        style_flags.words[i] \notin VALID_PROPERTIES
            THEN Raise(o, "UnknownStyleFlag")
            ELSE LET parsed == StyleParse(style_flags)
                 IN IF parsed.ok THEN set_rule(o, name, parsed.style)
                    ELSE Raise(o, "StyleSyntaxError")

----------------------------------------------------------------------------
(* StyleProperty: the text style, composed of text_color, text_background, text_style *)

StyleProperty_get(r) ==
    LET style == StyleFromColor(
                     IF has_rule(r, "text_color")
                     THEN ColorProperty_get(r, "text_color") ELSE PyNone,
                     IF has_rule(r, "text_background")
                     THEN ColorProperty_get(r, "text_background") ELSE PyNone)
    IN IF has_rule(r, "text_style")
       THEN StyleAdd(style, StyleFlagsProperty_get(r, "text_style"))
       ELSE style

\* the three conditional assignments that end StyleProperty.__set__
Decompose(o, style) ==
    LET o1 == IF style.color # PyNone
              THEN ColorProperty_set(o, "text_color", style.color) ELSE o
        o2 == IF style.bgcolor # PyNone
              THEN ColorProperty_set(o1, "text_background", style.bgcolor) ELSE o1
    IN IF ~IsNullStyle(style)
       THEN StyleFlagsProperty_set(o2, "text_style", StrWithoutColor(style))
       ELSE o2

StyleProperty_set(o0, style) ==
    LET o == refresh(o0)
    IN IF style = PyNone
       THEN clear_rule(clear_rule(clear_rule(o, "text_color"), "text_background"),
                       "text_style")
       ELSE IF style.t = "str"
       THEN LET parsed == StyleParse(style)
            IN IF parsed.ok THEN Decompose(o, parsed.style)
               ELSE Raise(o, "StyleSyntaxError")
       ELSE Decompose(o, style)

----------------------------------------------------------------------------
(* Scalar and ScalarProperty.  Numbers are fixed-point, counted in hundredths:
   PyFloat(150) is 1.5.  A str holding a scalar literal such as "50%" is kept as
   its number and its unit symbol: PyScalarLit(5000, "%"). *)

PyFloat(v) == [t |-> "float", v |-> v]
PyInt(v) == [t |-> "int", v |-> v]
PyScalarLit(v, symbol) == [t |-> "str", num |-> v, symbol |-> symbol]

\* UNIT_SYMBOL of css/scalar.py: the symbol each Unit is written with
UNIT_SYMBOL ==
    [CELLS |-> "", FRACTION |-> "fr", PERCENT |-> "%", WIDTH |-> "w",
     HEIGHT |-> "h", VIEW_WIDTH |-> "vw", VIEW_HEIGHT |-> "vh"]

Units == DOMAIN UNIT_SYMBOL

Scalar(value, unit, percent) ==
    [t |-> "Scalar", value |-> value, unit |-> unit, percent_unit |-> percent]

\* Scalar.is_percent
is_percent(scalar) == scalar.unit = "PERCENT"

\* Scalar.parse(token): ScalarParseError unless token is a number and a unit symbol
ScalarParseOk(token) ==
    "symbol" \in DOMAIN token /\ \E u \in Units : UNIT_SYMBOL[u] = token.symbol

ScalarParse(token, percent) ==
    Scalar(token.num, CHOOSE u \in Units : UNIT_SYMBOL[u] = token.symbol, percent)

ScalarProperty_get(r, name) == get_rule(r, name, PyNone)

\* mutant: the rule is stored before the unit is checked
ScalarStore_StoreThenCheck(o, name, new_value, allowed, percent) ==
    LET stored == IF is_percent(new_value)
                  THEN Scalar(new_value.value, percent, "WIDTH")
                  ELSE new_value
    IN IF new_value.unit \notin allowed
       THEN Raise(set_rule(o, name, stored), "DisallowedUnit")
       ELSE refresh(set_rule(o, name, stored))

\* mutant: the unit is not checked
ScalarStore_NoUnitCheck(o, name, new_value, allowed, percent) ==
    LET stored == IF is_percent(new_value)
                  THEN Scalar(new_value.value, percent, "WIDTH")
                  ELSE new_value
    IN refresh(set_rule(o, name, stored))

\* mutant: the percent rewrite keeps the unit and sets the percent-reference-unit
ScalarStore_KeepPercentUnit(o, name, new_value, allowed, percent) ==
    IF new_value.unit \notin allowed THEN Raise(o, "DisallowedUnit")
    ELSE LET stored == IF is_percent(new_value)
                       THEN Scalar(new_value.value, "PERCENT", percent)
                       ELSE new_value
         IN refresh(set_rule(o, name, stored))

\* the unit check, the percent rewrite and the store that end ScalarProperty.__set__
ScalarStore(o, name, new_value, allowed, percent) ==
    IF new_value.unit \notin allowed THEN Raise(o, "DisallowedUnit")
    ELSE LET stored == IF is_percent(new_value)
                       THEN Scalar(new_value.value, percent, "WIDTH")
                       ELSE new_value
         IN refresh(set_rule(o, name, stored))

ScalarProperty_set(o, name, value, allowed, percent) ==
    IF value = PyNone THEN clear_rule(o, name)
    ELSE IF value.t = "float"
    THEN ScalarStore(o, name, Scalar(value.v, "CELLS", "WIDTH"), allowed, percent)
    ELSE IF value.t = "Scalar" THEN ScalarStore(o, name, value, allowed, percent)
    ELSE IF value.t = "str"
    THEN IF ScalarParseOk(value)
         THEN ScalarStore(o, name, ScalarParse(value, "WIDTH"), allowed, percent)
         ELSE Raise(o, "ScalarParseError")
    ELSE Raise(o, "NotAScalar")

\* ScalarProperty.__init__: units or {*UNIT_SYMBOL}
ScalarProperty_units(given) == IF given = {} THEN Units ELSE given

----------------------------------------------------------------------------
(* SpacingProperty *)

Spacing(top, right, bottom, left) ==
    [t |-> "Spacing", top |-> top, right |-> right, bottom |-> bottom, left |-> left]

NULL_SPACING == Spacing(0, 0, 0, 0)

\* Spacing.unpack(pad): an int, or a tuple of 1, 2 or 4 ints
SpacingUnpackOk(pad) ==
    pad.t = "int" \/ (pad.t \in {"tuple", "list"} /\ Len(pad.items) \in {1, 2, 4})

SpacingUnpack(pad) ==
    IF pad.t = "int" THEN Spacing(pad.v, pad.v, pad.v, pad.v)
    ELSE LET p == [i \in DOMAIN pad.items |-> pad.items[i].v]
         IN IF Len(p) = 1 THEN Spacing(p[1], p[1], p[1], p[1])
            ELSE IF Len(p) = 2 THEN Spacing(p[1], p[2], p[1], p[2])
            ELSE Spacing(p[1], p[2], p[3], p[4])

SpacingProperty_get(r, name) == get_rule(r, name, NULL_SPACING)

\* mutant: a clearing write returns before the refresh
SpacingProperty_set_ClearSilently(o0, name, spacing) ==
    IF spacing = PyNone THEN clear_rule(o0, name)
    ELSE IF SpacingUnpackOk(spacing)
    THEN set_rule(refresh_layout(o0), name, SpacingUnpack(spacing))
    ELSE Raise(refresh_layout(o0), "SpacingArity")

SpacingProperty_set(o0, name, spacing) ==
    LET o == refresh_layout(o0)
    IN IF spacing = PyNone THEN clear_rule(o, name)
       ELSE IF SpacingUnpackOk(spacing) THEN set_rule(o, name, SpacingUnpack(spacing))
       ELSE Raise(o, "SpacingArity")

----------------------------------------------------------------------------
(* DocksProperty and DockProperty *)

DockGroup(name) == [t |-> "DockGroup", name |-> name]

DocksProperty_get(r) == get_rule(r, "docks", PyTuple(<<>>))

DocksProperty_set(o0, docks) ==
    LET o == refresh_layout(o0)
    IN IF docks = PyNone THEN clear_rule(o, "docks")
       ELSE set_rule(o, "docks", PyTuple(docks.items))

DockProperty_get(r) == get_rule(r, "dock", PyStr("_default"))

DockProperty_set(o0, spacing) == set_rule(refresh_layout(o0), "dock", spacing)

----------------------------------------------------------------------------
(* LayoutProperty *)

Layout(name) == [t |-> "Layout", name |-> name]

\* the names get_layout knows
LayoutNames == {"vertical", "dock"}

LayoutProperty_get(r, name) == get_rule(r, name, PyNone)

\* mutant: the layout refresh is called once the value has been validated
LayoutProperty_set_ValidateFirst(o0, layout) ==
    IF layout = PyNone THEN clear_rule(refresh_layout(o0), "layout")
    ELSE IF layout.t = "Layout" THEN set_rule(refresh_layout(o0), "layout", layout)
    ELSE IF layout.t = "str" /\ layout.s \in LayoutNames
    THEN set_rule(refresh_layout(o0), "layout", Layout(layout.s))
    ELSE Raise(o0, "MissingLayout")

LayoutProperty_set(o0, layout) ==
    LET o == refresh_layout(o0)
    IN IF layout = PyNone THEN clear_rule(o, "layout")
       ELSE IF layout.t = "Layout" THEN set_rule(o, "layout", layout)
       ELSE IF layout.t = "str" /\ layout.s \in LayoutNames
       THEN set_rule(o, "layout", Layout(layout.s))
       ELSE Raise(o, "MissingLayout")

----------------------------------------------------------------------------
(* OffsetProperty *)

ScalarOffset(x, y) == [t |-> "ScalarOffset", x |-> x, y |-> y]

\* ScalarOffset.null()
ScalarOffsetNull ==
    ScalarOffset(Scalar(0, "CELLS", "WIDTH"), Scalar(0, "CELLS", "HEIGHT"))

OffsetProperty_get(r, name) == get_rule(r, name, ScalarOffsetNull)

\* one component of an (x, y) offset: a str is parsed, a number is taken as cells
OffsetScalarOk(v) == v.t = "str" => ScalarParseOk(v)

\* float(x) of an int x, in hundredths
FloatOfInt(v) == v * 100

OffsetScalar(v, percent) ==
    IF v.t = "str" THEN ScalarParse(v, percent)
    ELSE Scalar(IF v.t = "int" THEN FloatOfInt(v.v) ELSE v.v, "CELLS", percent)

OffsetProperty_set(o0, name, offset) ==
    LET o == refresh_layout(o0)
    IN IF offset = PyNone THEN clear_rule(o, name)
       ELSE IF offset.t = "ScalarOffset" THEN set_rule(o, name, offset)
       ELSE IF ~CanUnpack2(offset) THEN Raise(o, "UnpackValueError")
       ELSE LET x == offset.items[1]
                y == offset.items[2]
            IN IF OffsetScalarOk(x) /\ OffsetScalarOk(y)
               THEN set_rule(o, name,
                        ScalarOffset(OffsetScalar(x, "WIDTH"), OffsetScalar(y, "HEIGHT")))
               ELSE Raise(o, "ScalarParseError")

----------------------------------------------------------------------------
(* StringEnumProperty, declared as visibility = StringEnumProperty(VALID, DEFAULT) *)

EnumValid == {"visible", "hidden"}

EnumDefault == "visible"

StringEnumProperty_get(r, name) == get_rule(r, name, PyStr(EnumDefault))

\* mutant: the value is stored without the membership test
StringEnumProperty_set_StoreAny(o0, name, value) ==
    LET o == refresh(o0)
    IN IF value = PyNone THEN clear_rule(o, name) ELSE set_rule(o, name, value)

StringEnumProperty_set(o0, name, value) ==
    LET o == refresh(o0)
    IN IF value = PyNone THEN clear_rule(o, name)
       ELSE IF value.t = "str" /\ value.s \in EnumValid THEN set_rule(o, name, value)
       ELSE Raise(o, "NotInEnum")

----------------------------------------------------------------------------
(* NameProperty and NameListProperty *)

NameProperty_get(r, name) == get_rule(r, name, PyStr(""))

NameProperty_set(o0, name, value) ==
    LET o == refresh_layout(o0)
    IN IF value = PyNone THEN clear_rule(o, name)
       ELSE IF value.t # "str" THEN Raise(o, "StyleTypeError")
       ELSE set_rule(o, name, value)

\* str.lower() on the words the model writes
Lower(w) ==
    CASE w = "Top" -> "top"
      [] w = "LEFT" -> "left"
      [] OTHER -> w

NameListProperty_get(r, name) == get_rule(r, name, PyTuple(<<>>))

NameListProperty_set(o0, name, names) ==
    LET o == refresh_layout(o0)
    IN IF names = PyNone THEN clear_rule(o, name)
       ELSE IF names.t = "str"
       THEN set_rule(o, name,
                PyTuple([i \in DOMAIN names.words |-> PyStr(Lower(names.words[i]))]))
       ELSE IF names.t = "tuple" THEN set_rule(o, name, names)
       ELSE o

----------------------------------------------------------------------------
(* TransitionsProperty *)

PyDict(items) == [t |-> "dict", items |-> items]

Transition(duration) == [t |-> "Transition", duration |-> duration]

\* a dict that the caller holds under the name ref; dict.copy() of it is a new
\* dict that nobody else holds
PyDictRef(ref, items) == [t |-> "dict", items |-> items, ref |-> ref]

\* dict.copy(): a new dict with the same items
DictCopy(d) == PyDict([k \in DOMAIN d.items |-> d.items[k]])

TransitionsProperty_get(r) == get_rule(r, "transitions", PyDict(<<>>))

\* mutant: the caller's dict itself is stored
TransitionsProperty_set_Alias(o, transitions) ==
    IF transitions = PyNone THEN clear_rule(o, "transitions")
    ELSE set_rule(o, "transitions", transitions)

TransitionsProperty_set(o, transitions) ==
    IF transitions = PyNone THEN clear_rule(o, "transitions")
    ELSE set_rule(o, "transitions", DictCopy(transitions))

----------------------------------------------------------------------------
(* FractionalProperty, declared as opacity = FractionalProperty() *)

\* FractionalProperty.__init__: default = 1.0
FractionalDefault == 100

\* geometry.clamp(value, minimum, maximum)
clamp(value, minimum, maximum) ==
    IF value < minimum THEN minimum ELSE IF value > maximum THEN maximum ELSE value

FractionalProperty_get(r, name) == get_rule(r, name, PyFloat(FractionalDefault))

\* mutant: the value is stored as given, without clamp
FractionalProperty_set_NoClamp(o0, name, value) ==
    LET o == refresh(o0)
    IN IF value = PyNone THEN clear_rule(o, name)
       ELSE IF value.t = "float" THEN set_rule(o, name, PyFloat(value.v))
       ELSE IF value.t = "str" /\ "symbol" \in DOMAIN value /\ value.symbol = "%"
       THEN set_rule(o, name, PyFloat(ScalarParse(value, "WIDTH").value \div 100))
       ELSE Raise(o, "StyleTypeError")

FractionalProperty_set(o0, name, value) ==
    LET o == refresh(o0)
    IN IF value = PyNone THEN clear_rule(o, name)
       ELSE IF value.t = "float" THEN set_rule(o, name, PyFloat(clamp(value.v, 0, 100)))
       ELSE IF value.t = "str" /\ "symbol" \in DOMAIN value /\ value.symbol = "%"
       THEN set_rule(o, name,
                PyFloat(clamp(ScalarParse(value, "WIDTH").value \div 100, 0, 100)))
       ELSE Raise(o, "StyleTypeError")

----------------------------------------------------------------------------
(* Inputs *)

\* (kind, color) pairs as a caller writes them: the color as a literal or as a Color
EdgeRed == PyTuple(<<PyStr("solid"), PyStr("red")>>)
EdgeBlue == PyTuple(<<PyStr("dashed"), PyColor("blue")>>)
EdgeBad == PyTuple(<<PyStr("solid"), PyStr("bogus")>>)

ValidEdges == {EdgeRed, EdgeBlue}

EdgeValues == ValidEdges \cup {EdgeBad, PyNone}

SeqsUpTo(S, n) == UNION {[1..k -> S] : k \in 0..n}

\* sequences of edge values: all valid, or with malformed colors among them
EdgeSeqs == SeqsUpTo(ValidEdges, MaxSeqLen) \cup SeqsUpTo({EdgeRed, EdgeBad}, MaxSeqLen)

BorderInputs ==
    {PyNone} \cup (EdgeValues \ {PyNone})
        \cup {PyList(s) : s \in EdgeSeqs}
        \cup {PyTuple(s) : s \in SeqsUpTo(ValidEdges, MaxSeqLen)}

\* colors and attribute settings of the Style objects a caller writes
TextColors == {PyNone, PyColor("red"), PyColor("blue")}

TextBackgrounds == {PyNone, PyColor("blue")}

StyleInputs ==
    {s \in {Style(c, bg, on, off) :
                c \in TextColors, bg \in TextBackgrounds,
                on \in SUBSET {"bold", "italic", "dim"}, off \in SUBSET {"bold"}} :
        s.on \cap s.off = {}}

\* style definitions written as a str
TextLiterals ==
    {PyWords(<<"bold", "red", "on", "blue">>), PyWords(<<"not", "bold">>),
     PyWords(<<"red">>), PyWords(<<"flarp">>)}

\* the words of the style-flag strings a caller writes
FlagWords == {"bold", "not", "i", "none", "flarp"}

FlagInputs == {PyNone} \cup {PyWords(ws) : ws \in SeqsUpTo(FlagWords, MaxWords) \ {<<>>}}

ColorInputs == {PyNone, PyColor("red"), PyStr("blue"), PyStr("bogus")}

\* the numbers a caller writes
Numbers == {500, 5000}

ScalarInputs ==
    {PyNone, PyInt(5), PyScalarLit(5000, "px"), PyStr("auto")}
        \cup {PyFloat(v) : v \in Numbers}
        \cup {Scalar(v, u, p) : v \in {5000}, u \in Units, p \in {"WIDTH", "HEIGHT"}}
        \cup {PyScalarLit(v, UNIT_SYMBOL[u]) : v \in Numbers, u \in Units}

\* the units arguments a scalar property is declared with ({} stands for None)
UnitConfigs ==
    {{}, {"CELLS", "PERCENT"}, {"CELLS", "PERCENT", "WIDTH", "HEIGHT"}, {"CELLS", "FRACTION"}}

PercentUnits == {"WIDTH", "HEIGHT"}

----------------------------------------------------------------------------
(* State machine *)

Done(op, arg, o) ==
    /\ rules' = o.rules
    /\ last' = [op |-> op, arg |-> arg, err |-> o.err,
                refresh |-> o.refresh, layout |-> o.layout]

Init ==
    /\ rules = [n \in RuleNames |-> Absent]
    /\ last = [op |-> "init", arg |-> PyNone, err |-> "none", refresh |-> 0, layout |-> 0]
    /\ units = Units
    /\ percent_unit = "WIDTH"
    /\ nwrites = 0

\* a Styles class whose scalar property is declared with any of the configurations
InitScalar ==
    /\ rules = [n \in RuleNames |-> Absent]
    /\ last = [op |-> "init", arg |-> PyNone, err |-> "none", refresh |-> 0, layout |-> 0]
    /\ units \in {ScalarProperty_units(given) : given \in UnitConfigs}
    /\ percent_unit \in PercentUnits
    /\ nwrites = 0

\* styles.border = border
BorderSet ==
    \E border \in BorderInputs :
        /\ Done("border", border, BorderProperty_set(Start(rules), "border", border))
        /\ UNCHANGED <<units, percent_unit, nwrites>>

\* styles.text = style
StyleSet ==
    \E style \in {PyNone} \cup StyleInputs \cup TextLiterals :
        /\ Done("text", style, StyleProperty_set(Start(rules), style))
        /\ UNCHANGED <<units, percent_unit, nwrites>>

\* styles.text_color = color, styles.text_background = color
ColorSet ==
    \E name \in {"text_color", "text_background"}, color \in ColorInputs :
        /\ Done(name, color, ColorProperty_set(Start(rules), name, color))
        /\ UNCHANGED <<units, percent_unit, nwrites>>

\* styles.text_style = style_flags
StyleFlagsSet ==
    \E style_flags \in FlagInputs :
        /\ Done("text_style", style_flags,
                StyleFlagsProperty_set(Start(rules), "text_style", style_flags))
        /\ UNCHANGED <<units, percent_unit, nwrites>>

NextText == StyleSet \/ ColorSet \/ StyleFlagsSet

SpecText == Init /\ [][NextText]_vars

\* styles.width = value
ScalarSet ==
    \E value \in ScalarInputs :
        /\ Done("width", value,
                ScalarProperty_set(Start(rules), "width", value, units, percent_unit))
        /\ UNCHANGED <<units, percent_unit, nwrites>>

NextScalar == ScalarSet

SpecScalar == InitScalar /\ [][NextScalar]_vars

NextBorder == BorderSet

SpecBorder == Init /\ [][NextBorder]_vars

----------------------------------------------------------------------------
(* All property kinds of one Styles object: width (scalar), border_* (box edges),
   border, text, text_color and text_background (color), text_style (style
   flags), padding (spacing), docks, dock, layout, offset, visibility
   (enumerated), layer (name), layers (name list), transitions and opacity
   (fractional).  A behaviour makes up to MaxWrites writes. *)

Counted ==
    /\ nwrites < MaxWrites
    /\ nwrites' = nwrites + 1
    /\ UNCHANGED <<units, percent_unit>>

WriteScalar ==
    \E value \in {PyNone, PyFloat(500), PyScalarLit(5000, "%"), PyScalarLit(5000, "px")} :
        /\ Counted
        /\ Done("width", value,
              ScalarProperty_set(Start(rules), "width", value, units, percent_unit))

WriteBox ==
    \E name \in BorderRules, edge \in {PyNone, EdgeRed, EdgeBad} :
        /\ Counted
        /\ Done(name, edge, BoxProperty_set(Start(rules), name, edge))

WriteBorder ==
    \E border \in {PyNone, EdgeRed, PyList(<<EdgeRed, EdgeBlue>>), PyList(<<>>),
                   PyList(<<EdgeRed, EdgeBad>>)} :
        /\ Counted
        /\ Done("border", border, BorderProperty_set(Start(rules), "border", border))

WriteText ==
    \E style \in {PyNone, Style(PyColor("red"), PyNone, {"bold"}, {}),
                  Style(PyColor("red"), PyNone, {"dim"}, {}),
                  PyWords(<<"red">>), PyWords(<<"flarp">>)} :
        /\ Counted
        /\ Done("text", style, StyleProperty_set(Start(rules), style))

WriteColor ==
    \E name \in {"text_color", "text_background"}, color \in ColorInputs :
        /\ Counted
        /\ Done(name, color, ColorProperty_set(Start(rules), name, color))

WriteStyleFlags ==
    \E style_flags \in {PyNone, PyWords(<<"bold">>), PyWords(<<"flarp">>),
                        PyWords(<<"none", "bold">>)} :
        /\ Counted
        /\ Done("text_style", style_flags,
              StyleFlagsProperty_set(Start(rules), "text_style", style_flags))

WriteSpacing ==
    \E spacing \in {PyNone, PyInt(1), PyTuple(<<PyInt(1), PyInt(2)>>),
                    PyTuple(<<PyInt(1), PyInt(2), PyInt(3)>>)} :
        /\ Counted
        /\ Done("padding", spacing, SpacingProperty_set(Start(rules), "padding", spacing))

WriteDocks ==
    \E docks \in {PyNone, PyList(<<DockGroup("header")>>)} :
        /\ Counted
        /\ Done("docks", docks, DocksProperty_set(Start(rules), docks))

WriteDock ==
    \E dock \in {PyNone, PyStr("header")} :
        /\ Counted
        /\ Done("dock", dock, DockProperty_set(Start(rules), dock))

WriteLayout ==
    \E layout \in {PyNone, PyStr("vertical"), PyStr("bogus"), Layout("dock")} :
        /\ Counted
        /\ Done("layout", layout, LayoutProperty_set(Start(rules), layout))

WriteOffset ==
    \E offset \in {PyNone, ScalarOffsetNull,
                   PyTuple(<<PyInt(1), PyScalarLit(5000, "%")>>),
                   PyTuple(<<PyStr("auto"), PyInt(1)>>)} :
        /\ Counted
        /\ Done("offset", offset, OffsetProperty_set(Start(rules), "offset", offset))

WriteEnum ==
    \E value \in {PyNone, PyStr("hidden"), PyStr("bogus")} :
        /\ Counted
        /\ Done("visibility", value,
              StringEnumProperty_set(Start(rules), "visibility", value))

WriteName ==
    \E value \in {PyNone, PyStr("main"), PyInt(3)} :
        /\ Counted
        /\ Done("layer", value, NameProperty_set(Start(rules), "layer", value))

WriteNameList ==
    \E names \in {PyNone, PyWords(<<"Top", "left">>), PyTuple(<<PyStr("a")>>),
                  PyList(<<PyStr("a")>>)} :
        /\ Counted
        /\ Done("layers", names, NameListProperty_set(Start(rules), "layers", names))

WriteTransitions ==
    \E transitions \in {PyNone, PyDict([offset |-> Transition(100)])} :
        /\ Counted
        /\ Done("transitions", transitions,
              TransitionsProperty_set(Start(rules), transitions))

WriteFractional ==
    \E value \in {PyNone, PyFloat(150), PyFloat(-20), PyScalarLit(5000, "%"), PyInt(1)} :
        /\ Counted
        /\ Done("opacity", value, FractionalProperty_set(Start(rules), "opacity", value))

Next ==
    \/ WriteScalar \/ WriteBox \/ WriteBorder \/ WriteText \/ WriteColor
    \/ WriteStyleFlags \/ WriteSpacing \/ WriteDocks \/ WriteDock \/ WriteLayout
    \/ WriteOffset \/ WriteEnum \/ WriteName \/ WriteNameList \/ WriteTransitions
    \/ WriteFractional

Spec == Init /\ [][Next]_vars

----------------------------------------------------------------------------
(* Claims about the border property *)

\* the edge value read back after a valid (kind, color) pair has been written to an edge
Canon(edge) ==
    PyTuple(<<edge.items[1],
              IF edge.items[2].t = "str" THEN ColorParse(edge.items[2].s) ELSE edge.items[2]>>)

AllValidEdges(items) == \A i \in 1..Len(items) : items[i] \in ValidEdges

IsSequence(v) == v.t \in {"list", "tuple"}

\* C1: after a border write of a two-element sequence [a, b] of valid edge values,
\* the border reads top = a, bottom = a, right = b, left = b.
C1_TwoValuesTopBottomRightLeft ==
    (/\ last.op = "border"
     /\ last.arg.t = "list"
     /\ Len(last.arg.items) = 2
     /\ AllValidEdges(last.arg.items))
    => LET e == BorderProperty_get(rules, "border")
           a == Canon(last.arg.items[1])
           b == Canon(last.arg.items[2])
       IN /\ last.err = "none"
          /\ e.top = a /\ e.bottom = a
          /\ e.right = b /\ e.left = b

\* C2: a border write of a four-element sequence sets top, right, bottom, left in
\* that order and a one-element sequence sets all four edges, whether the sequence
\* is a list or a tuple; a single (kind, color) pair sets all four edges.
C2_FourAndOneAnySequenceType ==
    /\ (/\ last.op = "border"
        /\ IsSequence(last.arg)
        /\ AllValidEdges(last.arg.items)
        /\ Len(last.arg.items) \in {1, 4})
       => LET e == BorderProperty_get(rules, "border")
              b == last.arg.items
          IN /\ last.err = "none"
             /\ Len(b) = 4 => e = Edges(Canon(b[1]), Canon(b[2]), Canon(b[3]), Canon(b[4]))
             /\ Len(b) = 1 => e = Edges(Canon(b[1]), Canon(b[1]), Canon(b[1]), Canon(b[1]))
    /\ (last.op = "border" /\ last.arg \in ValidEdges)
       => LET c == Canon(last.arg)
          IN last.err = "none" /\ BorderProperty_get(rules, "border") = Edges(c, c, c, c)

\* C3: a border write of a sequence whose length is not 1, 2 or 4 raises the
\* invalid-arity error and leaves the four edge rules as they were.
C3_BadArityRaisesAndKeepsEdges ==
    [][(/\ last'.op = "border"
        /\ IsSequence(last'.arg)
        /\ AllValidEdges(last'.arg.items)
        /\ Len(last'.arg.items) \notin {1, 2, 4})
       => (/\ last'.err = "InvalidArity"
           /\ \A n \in BorderRules : rules'[n] = rules[n])]_vars

----------------------------------------------------------------------------
(* Claims about the text style property *)

\* C4: writing a concrete style S to the text style property and reading the
\* property back yields S, whatever was written before; what S does not carry
\* is absent from the value read.
C4_TextStyleRoundTrip ==
    (last.op = "text" /\ last.arg.t = "Style")
    => (last.err = "none" /\ StyleProperty_get(rules) = last.arg)

----------------------------------------------------------------------------
(* Claims about the scalar property *)

\* the Scalar a written value stands for, when it stands for one
IsScalarValue(v) == v.t \in {"float", "Scalar"} \/ (v.t = "str" /\ ScalarParseOk(v))

ValueOf(v) == IF v.t = "float" THEN v.v ELSE IF v.t = "Scalar" THEN v.value ELSE v.num

UnitOf(v) ==
    IF v.t = "float" THEN "CELLS"
    ELSE IF v.t = "Scalar" THEN v.unit
    ELSE CHOOSE u \in Units : UNIT_SYMBOL[u] = v.symbol

\* C6: a scalar write whose unit is outside the property's allowed units raises
\* the disallowed-unit error and leaves the property's rule as it was.
C6_DisallowedUnitKeepsRule ==
    [][(/\ last'.op = "width"
        /\ IsScalarValue(last'.arg)
        /\ UnitOf(last'.arg) \notin units)
       => (/\ last'.err = "DisallowedUnit"
           /\ rules'["width"] = rules["width"])]_vars

\* C6 witness: a write was refused for its unit while a value was stored
C6_Witness ==
    /\ last.op = "width"
    /\ last.err = "DisallowedUnit"
    /\ rules["width"] # Absent

\* C7: whenever the scalar rule is present, the stored unit is one of the
\* property's allowed units, for every configuration of the property.
C7_StoredUnitAllowed ==
    rules["width"] # Absent => rules["width"].unit \in units

\* C7 amended: whenever the scalar rule is present, the stored unit is one of the
\* property's allowed units or is the property's percent-reference unit.
C7_StoredUnitAllowedOrPercentAxis ==
    rules["width"] # Absent => rules["width"].unit \in units \cup {percent_unit}

\* C7 witness: a percentage was normalised to an axis unit the property does not allow
C7_Witness ==
    /\ last.op = "width"
    /\ last.err = "none"
    /\ IsScalarValue(last.arg)
    /\ UnitOf(last.arg) = "PERCENT"
    /\ rules["width"].unit = percent_unit
    /\ percent_unit \notin units

\* C8: a percentage write stores the configured percent axis as the Scalar's
\* percent-reference-unit; any other value is stored with value and unit unchanged.
C8_PercentReferenceUnit ==
    (/\ last.op = "width"
     /\ last.err = "none"
     /\ IsScalarValue(last.arg))
    => LET stored == rules["width"]
       IN /\ stored.value = ValueOf(last.arg)
          /\ UnitOf(last.arg) = "PERCENT" => stored.percent_unit = percent_unit
          /\ UnitOf(last.arg) # "PERCENT" => stored.unit = UnitOf(last.arg)

\* C8 amended: a percentage write stores the configured percent axis as the
\* Scalar's unit, with WIDTH as its percent-reference-unit; any other value is
\* stored with value and unit unchanged.
C8_PercentBecomesAxisUnit ==
    (/\ last.op = "width"
     /\ last.err = "none"
     /\ IsScalarValue(last.arg))
    => LET stored == rules["width"]
       IN /\ stored.value = ValueOf(last.arg)
          /\ UnitOf(last.arg) = "PERCENT"
                => (stored.unit = percent_unit /\ stored.percent_unit = "WIDTH")
          /\ UnitOf(last.arg) # "PERCENT" => stored.unit = UnitOf(last.arg)

\* C8 witness: a percentage was written to a height-configured property
C8_Witness ==
    /\ last.op = "width"
    /\ last.err = "none"
    /\ IsScalarValue(last.arg)
    /\ UnitOf(last.arg) = "PERCENT"
    /\ percent_unit = "HEIGHT"
    /\ rules["width"].unit = "HEIGHT"

----------------------------------------------------------------------------
(* Claims about all property kinds *)

\* the rules a property is stored in
RulesOf(op) ==
    IF op = "border" THEN BorderRules ELSE IF op = "text" THEN TextRules ELSE {op}

\* the value a property reads
Read(r, op) ==
    CASE op = "width" -> ScalarProperty_get(r, op)
      [] op \in BorderRules -> BoxProperty_get(r, op)
      [] op = "border" -> BorderProperty_get(r, op)
      [] op = "text" -> StyleProperty_get(r)
      [] op \in {"text_color", "text_background"} -> ColorProperty_get(r, op)
      [] op = "text_style" -> StyleFlagsProperty_get(r, op)
      [] op = "padding" -> SpacingProperty_get(r, op)
      [] op = "docks" -> DocksProperty_get(r)
      [] op = "dock" -> DockProperty_get(r)
      [] op = "layout" -> LayoutProperty_get(r, op)
      [] op = "offset" -> OffsetProperty_get(r, op)
      [] op = "visibility" -> StringEnumProperty_get(r, op)
      [] op = "layer" -> NameProperty_get(r, op)
      [] op = "layers" -> NameListProperty_get(r, op)
      [] op = "transitions" -> TransitionsProperty_get(r)
      [] op = "opacity" -> FractionalProperty_get(r, op)

\* the documented default of a property
DefaultOf(op) ==
    CASE op \in {"width", "layout"} -> PyNone
      [] op \in BorderRules -> BoxDefault
      [] op = "border" -> Edges(BoxDefault, BoxDefault, BoxDefault, BoxDefault)
      [] op \in {"text", "text_style"} -> StyleNull
      [] op \in {"text_color", "text_background"} -> ColorDefault
      [] op = "padding" -> NULL_SPACING
      [] op \in {"docks", "layers"} -> PyTuple(<<>>)
      [] op = "dock" -> PyStr("_default")
      [] op = "offset" -> ScalarOffsetNull
      [] op = "visibility" -> PyStr(EnumDefault)
      [] op = "layer" -> PyStr("")
      [] op = "transitions" -> PyDict(<<>>)
      [] op = "opacity" -> PyFloat(FractionalDefault)

\* C5: writing None removes the property's rule: the store never holds a null
\* value, and after a write of None the property reads its documented default.
C5_NoneRemovesRule ==
    /\ \A n \in RuleNames : rules[n] # PyNone
    /\ (last.op # "init" /\ last.arg = PyNone)
       => (/\ last.err = "none"
           /\ \A n \in RulesOf(last.op) : rules[n] = Absent
           /\ Read(rules, last.op) = DefaultOf(last.op))

PaintOps ==
    {"width", "border", "text", "text_color", "text_background", "text_style",
     "visibility", "opacity"} \cup BorderRules

LayoutOps == {"padding", "docks", "dock", "layout", "offset", "layer", "layers"}

\* C9: every successful write to a paint-only property, a write of None
\* included, calls refresh() at least once and never refresh(layout=True).
C9_PaintWritesRepaint ==
    (last.op \in PaintOps /\ last.err = "none")
    => (last.refresh >= 1 /\ last.layout = 0)

\* C10: every write to a layout-affecting property, setting or clearing, calls
\* refresh(layout=True); a transitions write calls neither refresh.
C10_LayoutWritesRefreshLayout ==
    /\ last.op \in LayoutOps => last.layout >= 1
    /\ last.op = "transitions" => (last.refresh = 0 /\ last.layout = 0)

\* C10 witness: a layout-affecting property was cleared after it held a value
C10_Witness ==
    /\ nwrites = 2
    /\ last.op = "padding"
    /\ last.arg = PyNone
    /\ last.layout = 1
    /\ rules["padding"] = Absent

----------------------------------------------------------------------------
(* Writes, in any number and any order, to opacity (fractional), visibility
   (enumerated) and layers (name list) of one Styles object *)

\* floats and percentage strings inside, on the ends of and outside [0, 1], and
\* values of other types
FractionalInputs ==
    {PyNone, PyInt(1), PyStr("auto"), PyScalarLit(5000, "w")}
        \cup {PyFloat(v) : v \in {-20, 0, 37, 100, 150}}
        \cup {PyScalarLit(v, "%") : v \in {-2000, 0, 3700, 5000, 10000, 15000}}

\* styles.opacity = value
FractionalSet ==
    \E value \in FractionalInputs :
        /\ Done("opacity", value, FractionalProperty_set(Start(rules), "opacity", value))
        /\ UNCHANGED <<units, percent_unit, nwrites>>

\* styles.visibility = value
EnumInputs == {PyNone, PyStr("visible"), PyStr("hidden"), PyStr("bogus"), PyInt(3)}

EnumSet ==
    \E value \in EnumInputs :
        /\ Done("visibility", value,
                StringEnumProperty_set(Start(rules), "visibility", value))
        /\ UNCHANGED <<units, percent_unit, nwrites>>

\* names as a str, as a tuple and as a list
NameListInputs ==
    {PyNone, PyWords(<<"Top", "left">>), PyWords(<<"a">>),
     PyTuple(<<PyStr("a"), PyStr("b")>>), PyTuple(<<>>),
     PyList(<<PyStr("b"), PyStr("a")>>), PyList(<<PyStr("a")>>)}

\* styles.layers = names
NameListSet ==
    \E names \in NameListInputs :
        /\ Done("layers", names, NameListProperty_set(Start(rules), "layers", names))
        /\ UNCHANGED <<units, percent_unit, nwrites>>

\* the contents of the caller's dict M: some of the keys, each with a Transition
TransitionKeys == {"offset", "opacity"}

DictContents ==
    UNION {[ks -> {Transition(100), Transition(200)}] : ks \in SUBSET TransitionKeys}

\* styles.transitions = M
TransitionsSet ==
    \E transitions \in {PyNone} \cup {PyDictRef("M", c) : c \in DictContents} :
        /\ Done("transitions", transitions,
                TransitionsProperty_set(Start(rules), transitions))
        /\ UNCHANGED <<units, percent_unit, nwrites>>

\* M written before, the caller adds, removes or replaces keys of M: every
\* reference to M, the rule store's included if it holds one, sees the new contents
CallerMutates ==
    /\ last.op \in {"transitions", "mutate"}
    /\ last.arg # PyNone
    /\ \E c \in DictContents \ {last.arg.items} :
          LET M == PyDictRef(last.arg.ref, c)
          IN /\ rules' = [n \in RuleNames |->
                             IF "ref" \in DOMAIN rules[n] /\ rules[n].ref = M.ref
                             THEN M ELSE rules[n]]
             /\ last' = [op |-> "mutate", arg |-> M, err |-> "none",
                         refresh |-> 0, layout |-> 0,
                         written |-> IF last.op = "transitions"
                                     THEN last.arg.items ELSE last.written]
    /\ UNCHANGED <<units, percent_unit, nwrites>>

NextValues == FractionalSet \/ EnumSet \/ NameListSet \/ TransitionsSet \/ CallerMutates

SpecValues == Init /\ [][NextValues]_vars

----------------------------------------------------------------------------
(* Claims about the fractional property *)

\* x brought into [0, 1], in hundredths
Into01(x) == IF x > 100 THEN 100 ELSE IF x < 0 THEN 0 ELSE x

IsPercentString(v) == v.t = "str" /\ "symbol" \in DOMAIN v /\ v.symbol = "%"

\* C11: whenever the opacity rule is present its value lies in [0, 1]; a write of
\* a float above 1 stores 1, below 0 stores 0, inside [0, 1] stores it as it is;
\* a write of "p%" stores p/100 brought into [0, 1] the same way; neither
\* raises an error.
C11_FractionalClamped ==
    /\ rules["opacity"] # Absent =>
           /\ rules["opacity"].t = "float"
           /\ rules["opacity"].v >= 0 /\ rules["opacity"].v <= 100
    /\ (last.op = "opacity" /\ last.arg.t = "float") =>
           /\ last.err = "none"
           /\ rules["opacity"] = PyFloat(Into01(last.arg.v))
    /\ (last.op = "opacity" /\ IsPercentString(last.arg)) =>
           /\ last.err = "none"
           /\ rules["opacity"] = PyFloat(Into01(last.arg.num \div 100))

\* 1.5 was written and 1 is stored
C11_Witness ==
    /\ last.op = "opacity" /\ last.arg = PyFloat(150)
    /\ rules["opacity"] = PyFloat(100)

----------------------------------------------------------------------------
(* Claims about the style flags property *)

AllInVocabulary(ws) == \A i \in DOMAIN ws : ws[i] \in VALID_PROPERTIES

\* a style definition made of vocabulary words: "none" alone, or attribute
\* words, each "not" followed by an attribute word
WellFormedFlags(ws) ==
    \/ ws = <<"none">>
    \/ \A i \in DOMAIN ws :
           /\ ws[i] # "none"
           /\ ws[i] = "not" =>
                  (i < Len(ws) /\ ws[i + 1] \in VALID_PROPERTIES \ {"none", "not"})

\* the attribute a is named by ws, and its last mention is (on = FALSE) or is not
\* (on = TRUE) behind a "not"
NamedBy(ws, a, on) ==
    LET at == {i \in DOMAIN ws : ws[i] \notin {"none", "not"} /\ AttrOf(ws[i]) = a}
    IN /\ at # {}
       /\ LET m == CHOOSE i \in at : \A j \in at : j <= i
          IN on = ~(m > 1 /\ ws[m - 1] = "not")

FlagsNamed(ws) ==
    Style(PyNone, PyNone, {a \in AttrNames : NamedBy(ws, a, TRUE)},
          {a \in AttrNames : NamedBy(ws, a, FALSE)})

\* C12 as stated: a write of style flags with a word outside the vocabulary raises
\* the unknown-word error and leaves the rules as they were; a write whose words
\* are all in the vocabulary succeeds and stores a style.
C12_VocabularyWordsSucceed ==
    [][(last'.op = "text_style" /\ last'.arg # PyNone) =>
          IF AllInVocabulary(last'.arg.words)
          THEN last'.err = "none" /\ rules'["text_style"].t = "Style"
          ELSE last'.err = "UnknownStyleFlag" /\ rules' = rules]_vars

\* C12: a write of style flags with a word outside the vocabulary raises the
\* unknown-word error and leaves the rules as they were; a write of vocabulary
\* words that form a style definition succeeds and stores the style with the
\* attributes named, on or (behind "not") off; a write of vocabulary words that do
\* not form a style definition raises the style syntax error and leaves the
\* rules as they were.
C12_WellFormedVocabularyWordsSucceed ==
    [][(last'.op = "text_style" /\ last'.arg # PyNone) =>
          LET ws == last'.arg.words
          IN IF ~AllInVocabulary(ws)
             THEN last'.err = "UnknownStyleFlag" /\ rules' = rules
             ELSE IF WellFormedFlags(ws)
             THEN /\ last'.err = "none"
                  /\ rules' = [rules EXCEPT !["text_style"] = FlagsNamed(ws)]
             ELSE last'.err = "StyleSyntaxError" /\ rules' = rules]_vars

\* "bold not" was written over stored style flags: a style syntax error
C12_Witness ==
    /\ last.op = "text_style" /\ last.arg = PyWords(<<"bold", "not">>)
    /\ last.err = "StyleSyntaxError"
    /\ rules["text_style"] # Absent

----------------------------------------------------------------------------
(* Claims about the enumerated, transitions and name list properties *)

\* C13: whenever the visibility rule is present its value is one of the valid
\* values; a write of any other value raises the not-in-enumeration error and
\* leaves the rules as they were; with no rule present the property reads as
\* the default.
C13_EnumMember ==
    [][/\ rules'["visibility"] # Absent =>
             (rules'["visibility"].t = "str" /\ rules'["visibility"].s \in EnumValid)
       /\ (/\ last'.op = "visibility"
           /\ last'.arg # PyNone
           /\ ~(last'.arg.t = "str" /\ last'.arg.s \in EnumValid)) =>
             (last'.err = "NotInEnum" /\ rules' = rules)
       /\ rules'["visibility"] = Absent =>
             StringEnumProperty_get(rules', "visibility") = PyStr(EnumDefault)]_vars

\* "bogus" was written over a stored "hidden": an error, and "hidden" still stored
C13_Witness ==
    /\ last.op = "visibility" /\ last.arg = PyStr("bogus") /\ last.err = "NotInEnum"
    /\ rules["visibility"] = PyStr("hidden")

\* C14: after styles.transitions = M, whatever the caller then adds to, removes
\* from or replaces in M, the property reads as the contents M had when written.
C14_TransitionsIsolated ==
    last.op = "mutate" => TransitionsProperty_get(rules).items = last.written

\* M was written with one key and the caller has since put other contents in M
C14_Witness ==
    /\ last.op = "mutate"
    /\ last.written = [k \in {"offset"} |-> Transition(100)]
    /\ last.arg.items # last.written
    /\ rules["transitions"] # Absent

\* C15: after a write of names as a str the property reads as the tuple of its
\* words in order, lower-cased; after a write of names as a tuple or as a list
\* it reads as exactly those names in order.
C15_NameListRoundTrip ==
    /\ (last.op = "layers" /\ last.arg.t = "str") =>
           NameListProperty_get(rules, "layers")
               = PyTuple([i \in DOMAIN last.arg.words |-> PyStr(Lower(last.arg.words[i]))])
    /\ (last.op = "layers" /\ last.arg.t \in {"tuple", "list"}) =>
           NameListProperty_get(rules, "layers").items = last.arg.items

----------------------------------------------------------------------------
(* Claims about a border write that fails partway *)

EdgeRules == <<"border_top", "border_right", "border_bottom", "border_left">>

\* a (kind, color) pair whose color is a str that is not a color
Malformed(edge) == edge.items[2].t = "str" /\ ~ColorParseOk(edge.items[2].s)

\* C16: a border write of a list of two or four (kind, color) pairs, one of them
\* with a malformed color, raises the color error; of four pairs, the edges
\* before the first malformed pair hold their new values and the edges from it
\* on hold the values they had; of two pairs with the second malformed, two of
\* the edges hold the first pair and the other two hold the values they had; if
\* the first pair is the malformed one no edge has changed.
C16_BorderWriteNotAtomic ==
    [][(/\ last'.op = "border"
        /\ last'.arg.t = "list"
        /\ Len(last'.arg.items) \in {2, 4}
        /\ \E i \in DOMAIN last'.arg.items : Malformed(last'.arg.items[i])) =>
          LET b == last'.arg.items
              j == CHOOSE i \in DOMAIN b :
                       Malformed(b[i]) /\ \A k \in 1..(i - 1) : ~Malformed(b[k])
          IN /\ last'.err = "ColorParseError"
             /\ \A n \in RuleNames \ BorderRules : rules'[n] = rules[n]
             /\ IF Len(b) = 4
                THEN \A i \in 1..4 :
                         rules'[EdgeRules[i]]
                             = IF i < j THEN Canon(b[i]) ELSE rules[EdgeRules[i]]
                ELSE IF j = 1 THEN rules' = rules
                ELSE \E A \in SUBSET BorderRules :
                         /\ Cardinality(A) = 2
                         /\ \A n \in A : rules'[n] = Canon(b[1])
                         /\ \A n \in BorderRules \ A : rules'[n] = rules[n]]_vars

\* the third of four pairs was malformed: top is set, bottom is not
C16_Witness ==
    /\ last.op = "border"
    /\ last.arg = PyList(<<EdgeRed, EdgeRed, EdgeBad, EdgeRed>>)
    /\ last.err = "ColorParseError"
    /\ rules["border_top"] = Canon(EdgeRed)
    /\ rules["border_bottom"] = Absent

----------------------------------------------------------------------------
(* Reads.  value = styles.<property> runs the property's __get__ on the object:
   the outcome carries the value returned next to the rules and the refreshes. *)

ReadOps ==
    {"width", "border", "text", "text_color", "text_background", "text_style",
     "padding", "docks", "dock", "layout", "offset", "visibility", "layer",
     "layers", "transitions", "opacity"} \cup BorderRules

\* mutant: a read of a property that has no rule stores the value it returns
PropertyGet_StoreDefault(o, op) ==
    [rules |-> IF op \in RuleNames /\ ~has_rule(o.rules, op)
               THEN set_rule(o, op, Read(o.rules, op)).rules ELSE o.rules,
     err |-> o.err, refresh |-> o.refresh, layout |-> o.layout,
     value |-> Read(o.rules, op)]

\* __get__: get_rule and has_rule are the only calls made on the object
PropertyGet(o, op) ==
    [rules |-> o.rules, err |-> o.err, refresh |-> o.refresh, layout |-> o.layout,
     value |-> Read(o.rules, op)]

\* value = styles.<op>, any number of times between the writes of a behaviour;
\* again tells that the step before was a read of the same property, and before
\* is the value that read returned
ReadProperty ==
    \E op \in ReadOps :
        LET g == PropertyGet(Start(rules), op)
            again == last.op = "read" /\ last.arg = PyStr(op)
        IN /\ nwrites < MaxWrites
           /\ rules' = g.rules
           /\ last' = [op |-> "read", arg |-> PyStr(op), err |-> g.err,
                       refresh |-> g.refresh, layout |-> g.layout,
                       value |-> g.value, again |-> again,
                       before |-> IF again THEN last.value ELSE g.value]
           /\ UNCHANGED <<units, percent_unit, nwrites>>

NextRead == Next \/ ReadProperty

SpecRead == Init /\ [][NextRead]_vars

----------------------------------------------------------------------------
(* Claims about the order of the refresh and the rule store mutation *)

\* the properties backed by one rule whose __set__ begins with the refresh
RefreshFirstOps ==
    {"padding", "docks", "dock", "layout", "offset", "visibility", "layer", "layers",
     "text_color", "text_background", "text_style", "opacity"}

CompositeOps == {"border", "text"}

\* the write raised, or it returned without storing anything
StoredNothing(l) == l.err # "none" \/ (l.op = "layers" /\ l.arg.t = "list")

\* C18 as stated: a write to border, text or a refresh-first property that raises
\* or silently stores nothing has called exactly one refresh and has left the
\* rules as they were; a scalar write that raises has called no refresh.
C18_OneRefreshThenUnchanged ==
    [][/\ (last'.op \in RefreshFirstOps \cup CompositeOps /\ StoredNothing(last')) =>
             (last'.refresh + last'.layout = 1 /\ rules' = rules)
       /\ (last'.op = "width" /\ last'.err # "none") =>
             (last'.refresh = 0 /\ last'.layout = 0)]_vars

\* C18: a write to a refresh-first property backed by one rule that raises or
\* silently stores nothing has called exactly one refresh and has left the rules
\* as they were; a write to border or text that raises has called at least one
\* refresh, and if it has called exactly one the rules are as they were; a
\* scalar write that raises has called no refresh and has left the rules as they
\* were, and one that stores a value has called exactly one.
C18_RefreshBeforeValidation ==
    [][/\ (last'.op \in RefreshFirstOps /\ StoredNothing(last')) =>
             (last'.refresh + last'.layout = 1 /\ rules' = rules)
       /\ (last'.op \in CompositeOps /\ last'.err # "none") =>
             /\ last'.refresh >= 1 /\ last'.layout = 0
             /\ last'.refresh = 1 => rules' = rules
       /\ (last'.op = "width" /\ last'.err # "none") =>
             (last'.refresh = 0 /\ last'.layout = 0 /\ rules' = rules)
       /\ (last'.op = "width" /\ last'.err = "none" /\ last'.arg # PyNone) =>
             (last'.refresh = 1 /\ last'.layout = 0)]_vars

\* an unknown layout name was written over a stored layout: one layout refresh,
\* an error, and the layout still stored
C18_Witness ==
    /\ last.op = "layout" /\ last.err = "MissingLayout"
    /\ last.layout = 1 /\ last.refresh = 0
    /\ rules["layout"] # Absent

============================================================================
